---- MODULE Spec2Model ----
(***************************************************************************)
(* A model of denoiser/enhance.py: manifest discovery and caching          *)
(* (generate_json, get_dataset), the inference strategy (get_estimate),    *)
(* the output writer (save_wavs, write) and the orchestrator (enhance) run *)
(* by several ranks over one shared file system.                           *)
(*                                                                         *)
(* A path is the sequence of its '/'-separated segments, i.e. the value of *)
(* str.split('/'): "/d1/c/r/f.wav" is <<"", "d1", "c", "r", "f.wav">>.     *)
(* A sample is an integer number of 1/Unit; a blended sample is an integer *)
(* number of 1/(Unit*DryDen); dry is an integer number of 1/DryDen.        *)
(***************************************************************************)
EXTENDS Integers, Sequences, FiniteSets, TLC

\* ------------------------------------------------------------------ bounds
World == 2
MaxItems == 3
MaxCalls == 3
MaxLen == 2
MaxAmp == 3
Unit == 2
EstLen == 3
EstAmp == 1
EstCalls == 2
DryDen == 2
Frame == 2

Ranks == 0..(World - 1)

\* ------------------------------------------------------------------- state
VARIABLES
  args,       \* the parsed command line (shared by every rank)
  disk,       \* the input tree: whether the root exists, each file's header,
              \* and the order in which os.walk lists the files
  cache,      \* the manifest file at args.noisy_json
  ret,        \* what the last get_dataset call returned
  hist        \* history of the get_dataset calls made so far

envVars == <<args, disk, cache>>
callVars == <<ret, hist>>

VARIABLES
  pc,         \* where each rank is in enhance
  got,        \* what get_dataset returned to each rank
  queue,      \* the dataset indices each rank's loader has yet to yield
  cur,        \* the dataset index of the batch each rank is handling
  arrived,    \* the ranks that have entered distrib.barrier()
  dirs,       \* the directories of the output tree
  outFiles,   \* each output file: the sources written to it, in order
  handled,    \* per rank, the inference calls and writes done, in order
  failed      \* per rank, the exception that left enhance (if any)

orchVars == <<pc, got, queue, cur, arrived, dirs, outFiles, handled, failed>>

VARIABLES
  noisy,      \* the signal passed to get_estimate
  modelOut,   \* what the model returns for it, sample by sample
  estimate,   \* what get_estimate returned
  slog,       \* the streamer operations of the last call, in order
  streamer,   \* the streamer object the last streaming call built
  made,       \* how many streamers were constructed so far
  ncalls      \* how many get_estimate calls were made so far

estVars == <<noisy, modelOut, estimate, slog, streamer, made, ncalls>>

VARIABLES
  wavIn,      \* the waveform passed to write
  saved       \* what torchaudio.save was given

wrVars == <<wavIn, saved>>

vars == <<envVars, callVars, orchVars, estVars, wrVars>>

\* ------------------------------------------------------------------- paths
P1 == <<"", "d1", "c", "r", "f.wav">>
P2 == <<"", "d2", "c", "r", "f.wav">>
P3 == <<"", "d1", "c", "s", "f.wav">>
P4 == <<"", "d1", "c", "r", "n.txt">>
P5 == <<"", "r", "f.wav">>
P6 == <<"r", "", "f.wav">>
P7 == <<"wavs", "f.wav">>
P8 == <<"", "d1", "c", "r", "g.WAV">>

TouchPaths == {P1, P8}
DiskPaths == {P1, P2, P3, P4}
ManifestPaths == {P3, P5, P6, P7}

OutDir == <<"out">>

\* Path(root) / file, then file.suffix.lower()
Suffix(p) ==
  LET name == p[Len(p)]
  IN  CASE name = "f.wav" -> ".wav"
        [] name = "g.WAV" -> ".WAV"
        [] name = "n.txt" -> ".txt"
        [] OTHER -> ""

Lower(s) == IF s = ".WAV" THEN ".wav" ELSE s

Exts == {".wav"}

\* filename.split('/')[-k]; an IndexError when the path has fewer segments
HasSeg(p, k) == Len(p) >= k
Seg(p, k) == p[Len(p) - k + 1]

\* posixpath.join(path, b) for a component b that holds no '/'
PathJoin(path, b) ==
  IF Len(path) = 0 \/ path[Len(path)] = ""
  THEN IF Len(path) = 0 THEN <<b>> ELSE [path EXCEPT ![Len(path)] = b]
  ELSE Append(path, b)

\* the directory entry a path string names: empty segments ('//', a trailing
\* '/') do not change the entry
FsKey(path) == SelectSeq(path, LAMBDA s : s # "")

Prefixes(key) == { SubSeq(key, 1, n) : n \in 1..Len(key) }

\* ------------------------------------------------------------ file headers
Info(len, ch) == [readable |-> TRUE, length |-> len, channels |-> ch]
Corrupt == [readable |-> FALSE, length |-> 0, channels |-> 0]
Infos == {Info(4, 2), Info(3, 1), Corrupt}

\* ------------------------------------------------------ json.dump / load
PyTuple(a, b) == [py |-> "tuple", items |-> <<a, b>>]
PyList(s) == [py |-> "list", items |-> s]
JsonArray(s) == [json |-> "array", items |-> s]

json_dump(meta) ==
  JsonArray([i \in DOMAIN meta.items |-> JsonArray(meta.items[i].items)])

json_load(text) ==
  PyList([i \in DOMAIN text.items |-> PyList(text.items[i].items)])

NoCache == [exists |-> FALSE, text |-> JsonArray(<<>>)]
CacheOf(text) == [exists |-> TRUE, text |-> text]

\* all orderings of a finite set, as sequences without repetition
Orders(S) ==
  { s \in [1..Cardinality(S) -> S] : \A i, j \in DOMAIN s : i # j => s[i] # s[j] }

\* sequences of distinct elements of S of length at most n
DistinctSeqs(S, n) ==
  UNION { { s \in [1..k -> S] : \A i, j \in 1..k : i # j => s[i] # s[j] } : k \in 0..n }

SampleRate == 16000

\* ------------------------------------------------------------- discovery
Matched(p) == Lower(Suffix(p)) \in Exts

Frames(info) == info.length \div info.channels

NoFiles == PyList(<<>>)

\* os.walk(base_path, followlinks=True): a root that does not exist yields
\* nothing (os.walk drops the scandir error), a root of None raises TypeError
WalkRaises(a) == ~a.base_path
Walk(d) == IF d.base THEN d.order ELSE <<>>

Raised(kind, c, walked, wrote) ==
  [raised |-> kind, cache |-> c, walked |-> walked, wrote |-> wrote]

generate_json(a, d, c) ==
  LET audio_files == SelectSeq(Walk(d), Matched)
      unreadable == \E i \in DOMAIN audio_files : ~d.files[audio_files[i]].readable
      meta == PyList([i \in DOMAIN audio_files |->
                PyTuple(audio_files[i], Frames(d.files[audio_files[i]]))])
  IN  IF WalkRaises(a) THEN Raised("TypeError", c, FALSE, FALSE)
      ELSE IF unreadable THEN Raised("ProbeError", c, TRUE, FALSE)
      ELSE Raised("none", CacheOf(json_dump(meta)), TRUE, TRUE)

\* audio.find_audio_files(noisy_dir): discovery without a cache
find_audio_files(d) ==
  LET audio_files == SelectSeq(d.order, Matched)
      unreadable == \E i \in DOMAIN audio_files : ~d.files[audio_files[i]].readable
  IN  IF ~d.base \/ unreadable
      THEN [raised |-> "DiscoveryError", files |-> NoFiles]
      ELSE [raised |-> "none",
            files |-> PyList([i \in DOMAIN audio_files |->
                        PyTuple(audio_files[i], Frames(d.files[audio_files[i]]))])]

Audioset(files, sr) == [files |-> files, with_path |-> TRUE, sample_rate |-> sr]
NoDataset == Audioset(NoFiles, 0)

Result(kind, raised, dset, c, walked, wrote, warned) ==
  [kind |-> kind, raised |-> raised, dset |-> dset, cache |-> c,
   walked |-> walked, wrote |-> wrote, warned |-> warned]

\* get_dataset that walks base_path again although the cache file exists
get_dataset_rescan(a, d, c) ==
  IF a.noisy_json
  THEN LET g == generate_json(a, d, c)
       IN  IF g.raised # "none"
           THEN Result("error", g.raised, NoDataset, g.cache, g.walked, g.wrote, FALSE)
           ELSE Result("dataset", "none",
                       Audioset(json_load(g.cache.text), a.sample_rate),
                       g.cache, g.walked, g.wrote, FALSE)
  ELSE Result("none", "none", NoDataset, c, FALSE, FALSE, TRUE)

\* get_dataset that returns an empty dataset, not None, when no input is given
get_dataset_empty(a, d, c) ==
  IF a.noisy_json \/ a.noisy_dir
  THEN Result("error", "DiscoveryError", NoDataset, c, FALSE, FALSE, FALSE)
  ELSE Result("dataset", "none", Audioset(NoFiles, a.sample_rate),
              c, FALSE, FALSE, TRUE)

get_dataset(a, d, c) ==
  IF a.noisy_json
  THEN LET g == IF c.exists THEN Raised("none", c, FALSE, FALSE)
                ELSE generate_json(a, d, c)
       IN  IF g.raised # "none"
           THEN Result("error", g.raised, NoDataset, g.cache, g.walked, g.wrote, FALSE)
           ELSE Result("dataset", "none",
                       Audioset(json_load(g.cache.text), a.sample_rate),
                       g.cache, g.walked, g.wrote, FALSE)
  ELSE IF a.noisy_dir
  THEN LET f == find_audio_files(d)
       IN  IF f.raised # "none"
           THEN Result("error", f.raised, NoDataset, c, TRUE, FALSE, FALSE)
           ELSE Result("dataset", "none", Audioset(f.files, a.sample_rate),
                       c, TRUE, FALSE, FALSE)
  ELSE Result("none", "none", NoDataset, c, FALSE, FALSE, TRUE)

\* ------------------------------------------- repeated get_dataset calls
Args(json, dir, base, dry, streaming) ==
  [noisy_json |-> json, noisy_dir |-> dir, base_path |-> base,
   dry |-> dry, streaming |-> streaming, sample_rate |-> SampleRate]

EmptyDisk(base) == [base |-> base, files |-> <<>>, order |-> <<>>]

NoRet == [kind |-> "none", raised |-> "none", dset |-> NoDataset]
NoCall == [cacheExisted |-> FALSE, baseExisted |-> FALSE, unprobeable |-> FALSE,
           verbatim |-> FALSE, walked |-> FALSE, wrote |-> FALSE]
NoHist == [calls |-> 0, walks |-> 0, writes |-> 0, loads |-> 0,
           first |-> NoDataset, last |-> NoCall]

Unprobeable(d) == \E p \in DOMAIN d.files : Matched(p) /\ ~d.files[p].readable

CallGetDataset ==
  /\ hist.calls < MaxCalls
  /\ LET r == get_dataset(args, disk, cache)
     IN  /\ cache' = r.cache
         /\ ret' = [kind |-> r.kind, raised |-> r.raised, dset |-> r.dset]
         /\ hist' = [calls |-> hist.calls + 1,
                     walks |-> hist.walks + (IF r.walked THEN 1 ELSE 0),
                     writes |-> hist.writes + (IF r.wrote THEN 1 ELSE 0),
                     loads |-> hist.loads + (IF r.kind = "dataset" THEN 1 ELSE 0),
                     first |-> IF hist.loads = 0 /\ r.kind = "dataset"
                               THEN r.dset ELSE hist.first,
                     last |-> [cacheExisted |-> cache.exists,
                               baseExisted |-> args.base_path /\ disk.base,
                               unprobeable |-> Unprobeable(disk),
                               verbatim |-> /\ r.cache = cache
                                            /\ r.kind = "dataset"
                                            /\ r.dset.files = json_load(cache.text),
                               walked |-> r.walked, wrote |-> r.wrote]]
  /\ UNCHANGED <<args, disk, orchVars, estVars, wrVars>>

\* ------------------------------------------------------------ output tree

\* os.makedirs(path, exist_ok): the missing parents are created too; a leaf
\* that exists raises FileExistsError unless exist_ok
makedirs(ds, path, exist_ok) ==
  IF FsKey(path) \in ds
  THEN [raised |-> IF exist_ok THEN "none" ELSE "FileExistsError", dirs |-> ds]
  ELSE [raised |-> "none", dirs |-> ds \cup Prefixes(FsKey(path))]

\* os.path.exists(path) for a directory of the output tree
exists(ds, path) == FsKey(path) \in ds

ClsDir(out_dir, filename) == PathJoin(out_dir, Seg(filename, 3))
VidDir(out_dir, filename) == PathJoin(ClsDir(out_dir, filename), Seg(filename, 2))
\* the destination without the recording-id directory
DestPathNoVid(out_dir, filename) ==
  PathJoin(ClsDir(out_dir, filename), Seg(filename, 1))

DestPath(out_dir, filename) == PathJoin(VidDir(out_dir, filename), Seg(filename, 1))

\* distrib.loader(dset, batch_size=1): rank r reads the indices r, r + world,
\* r + 2 * world, ... of the dataset, in that order (indices from 1 here)
RECURSIVE Stride(_, _)
Stride(i, n) == IF i > n THEN <<>> ELSE <<i>> \o Stride(i + World, n)

Partition(r, dset) == Stride(r + 1, Len(dset.files.items))

SourcePath(dset, i) == dset.files.items[i].items[1]

Ev(op, i) == [op |-> op, idx |-> i]
NoFailure == [kind |-> "none", batch |-> 0, events |-> 0]

\* the failure is noted and the loop goes on with the next batch
FailSkip(r, kind, batch) ==
  /\ pc' = [pc EXCEPT ![r] = "loop"]
  /\ failed' = [failed EXCEPT ![r] =
                  [kind |-> kind, batch |-> batch, events |-> Len(handled[r])]]

\* an exception leaves enhance: nothing catches it
Fail(r, kind, batch) ==
  /\ pc' = [pc EXCEPT ![r] = "error"]
  /\ failed' = [failed EXCEPT ![r] =
                  [kind |-> kind, batch |-> batch, events |-> Len(handled[r])]]

Goto(r, label) ==
  /\ pc' = [pc EXCEPT ![r] = label]
  /\ UNCHANGED failed

\* lines 122-129: resolve the model, model.eval(), choose out_dir
LoadModel(r) ==
  /\ pc[r] = "start"
  /\ Goto(r, "dataset")
  /\ UNCHANGED <<estVars, wrVars, envVars, callVars, got, queue, cur, arrived, dirs, outFiles, handled>>

\* lines 131-133: dset = get_dataset(args); return when it is None
EnhanceGetDataset(r) ==
  /\ pc[r] = "dataset"
  /\ LET res == get_dataset(args, disk, cache)
     IN  /\ cache' = res.cache
         /\ got' = [got EXCEPT ![r] =
                      [kind |-> res.kind, warned |-> res.warned, dset |-> res.dset]]
         /\ IF res.kind = "error" THEN Fail(r, res.raised, 0)
            ELSE IF res.kind = "none" THEN Goto(r, "returned")
            ELSE Goto(r, "loader")
  /\ UNCHANGED <<estVars, wrVars, args, disk, callVars, queue, cur, arrived, dirs, outFiles, handled>>

\* line 134
OpenLoader(r) ==
  /\ pc[r] = "loader"
  /\ queue' = [queue EXCEPT ![r] = Partition(r, got[r].dset)]
  /\ Goto(r, "mkroot")
  /\ UNCHANGED <<estVars, wrVars, envVars, callVars, got, cur, arrived, dirs, outFiles, handled>>

\* no rank creates the output root
MkRootSkipped(r) ==
  /\ pc[r] = "mkroot"
  /\ Goto(r, "barrier")
  /\ UNCHANGED <<estVars, wrVars, envVars, callVars, got, queue, cur, arrived, dirs, outFiles, handled>>

\* lines 136-137
MkRoot(r) ==
  /\ pc[r] = "mkroot"
  /\ dirs' = IF r = 0 THEN makedirs(dirs, OutDir, TRUE).dirs ELSE dirs
  /\ Goto(r, "barrier")
  /\ UNCHANGED <<estVars, wrVars, envVars, callVars, got, queue, cur, arrived, outFiles, handled>>

\* line 138: the rank enters the barrier ...
EnterBarrier(r) ==
  /\ pc[r] = "barrier"
  /\ arrived' = arrived \cup {r}
  /\ Goto(r, "waiting")
  /\ UNCHANGED <<estVars, wrVars, envVars, callVars, got, queue, cur, dirs, outFiles, handled>>

\* ... and leaves it once every rank has entered
LeaveBarrier(r) ==
  /\ pc[r] = "waiting"
  /\ arrived = Ranks
  /\ Goto(r, "loop")
  /\ UNCHANGED <<estVars, wrVars, envVars, callVars, got, queue, cur, arrived, dirs, outFiles, handled>>

\* line 142: the loader yields the next batch (decoding it), or is exhausted
NextBatch(r) ==
  /\ pc[r] = "loop"
  /\ IF queue[r] = <<>>
     THEN /\ Goto(r, "done")
          /\ UNCHANGED <<queue, cur>>
     ELSE /\ cur' = [cur EXCEPT ![r] = Head(queue[r])]
          /\ queue' = [queue EXCEPT ![r] = Tail(queue[r])]
          /\ \E decoded \in BOOLEAN :
               IF decoded THEN Goto(r, "forward")
               ELSE Fail(r, "DecodeError", Head(queue[r]))
  /\ UNCHANGED <<estVars, wrVars, envVars, callVars, got, arrived, dirs, outFiles, handled>>

\* lines 144-147: move the batch to the device and run get_estimate
Forward(r) ==
  /\ pc[r] = "forward"
  /\ \E inferred \in BOOLEAN :
       IF inferred
       THEN /\ handled' = [handled EXCEPT ![r] = Append(@, Ev("infer", cur[r]))]
            /\ Goto(r, "chk_cls")
       ELSE /\ Fail(r, "InferenceError", cur[r])
            /\ UNCHANGED handled
  /\ UNCHANGED <<estVars, wrVars, envVars, callVars, got, queue, cur, arrived, dirs, outFiles>>

Filename(r) == SourcePath(got[r].dset, cur[r])

\* lines 79-83: split the source path, test whether out_dir/cls exists
SaveCheckCls(r) ==
  /\ pc[r] = "chk_cls"
  /\ IF ~HasSeg(Filename(r), 3) THEN Fail(r, "IndexError", cur[r])
     ELSE IF exists(dirs, ClsDir(OutDir, Filename(r))) THEN Goto(r, "chk_vid")
     ELSE Goto(r, "mk_cls")
  /\ UNCHANGED <<estVars, wrVars, envVars, callVars, got, queue, cur, arrived, dirs, outFiles, handled>>

\* line 84
SaveMakeCls(r) ==
  /\ pc[r] = "mk_cls"
  /\ LET m == makedirs(dirs, ClsDir(OutDir, Filename(r)), FALSE)
     IN  /\ dirs' = m.dirs
         /\ IF m.raised # "none" THEN Fail(r, m.raised, cur[r]) ELSE Goto(r, "chk_vid")
  /\ UNCHANGED <<estVars, wrVars, envVars, callVars, got, queue, cur, arrived, outFiles, handled>>

\* line 86
SaveCheckVid(r) ==
  /\ pc[r] = "chk_vid"
  /\ IF exists(dirs, VidDir(OutDir, Filename(r))) THEN Goto(r, "write")
     ELSE Goto(r, "mk_vid")
  /\ UNCHANGED <<estVars, wrVars, envVars, callVars, got, queue, cur, arrived, dirs, outFiles, handled>>

\* line 87
SaveMakeVid(r) ==
  /\ pc[r] = "mk_vid"
  /\ LET m == makedirs(dirs, VidDir(OutDir, Filename(r)), FALSE)
     IN  /\ dirs' = m.dirs
         /\ IF m.raised # "none" THEN Fail(r, m.raised, cur[r]) ELSE Goto(r, "write")
  /\ UNCHANGED <<estVars, wrVars, envVars, callVars, got, queue, cur, arrived, outFiles, handled>>

\* lines 89-92: write(estimate, out_dir/cls/vid/file)
SaveWrite(r) ==
  /\ pc[r] = "write"
  /\ \E stored \in BOOLEAN :
       IF stored
       THEN LET dest == FsKey(DestPath(OutDir, Filename(r)))
                before == IF dest \in DOMAIN outFiles THEN outFiles[dest] ELSE <<>>
            IN  /\ outFiles' = (dest :> Append(before, Filename(r))) @@ outFiles
                /\ handled' = [handled EXCEPT ![r] = Append(@, Ev("write", cur[r]))]
                /\ Goto(r, "loop")
       ELSE /\ Fail(r, "WriteError", cur[r])
            /\ UNCHANGED <<outFiles, handled>>
  /\ UNCHANGED <<estVars, wrVars, envVars, callVars, got, queue, cur, arrived, dirs>>

enhance(r) ==
  \/ LoadModel(r)
  \/ EnhanceGetDataset(r)
  \/ OpenLoader(r)
  \/ MkRoot(r)
  \/ EnterBarrier(r)
  \/ LeaveBarrier(r)
  \/ NextBatch(r)
  \/ Forward(r)
  \/ SaveCheckCls(r)
  \/ SaveMakeCls(r)
  \/ SaveCheckVid(r)
  \/ SaveMakeVid(r)
  \/ SaveWrite(r)

NoGot == [kind |-> "none", warned |-> FALSE, dset |-> NoDataset]

IdleOrch ==
  /\ pc = [r \in Ranks |-> "start"]
  /\ got = [r \in Ranks |-> NoGot]
  /\ queue = [r \in Ranks |-> <<>>]
  /\ cur = [r \in Ranks |-> 0]
  /\ arrived = {}
  /\ dirs = {}
  /\ outFiles = <<>>
  /\ handled = [r \in Ranks |-> <<>>]
  /\ failed = [r \in Ranks |-> NoFailure]

\* the input trees and the manifests a run may start from
HealthyDisk(S, order) ==
  [base |-> TRUE, files |-> [p \in S |-> Info(4, 2)], order |-> order]

InputDisks ==
  UNION { { HealthyDisk(S, o) : o \in Orders(S) } :
          S \in { T \in SUBSET DiskPaths : Cardinality(T) <= MaxItems } }
  \cup { EmptyDisk(FALSE),
         [base |-> TRUE, files |-> (P1 :> Corrupt), order |-> <<P1>>] }

UserCaches ==
  { CacheOf(json_dump(PyList([i \in DOMAIN s |-> PyTuple(s[i], 2)]))) :
      s \in DistinctSeqs(ManifestPaths, MaxItems) }

\* ------------------------------------------------------------- inference

\* the weights exchanged: dry * e + (1 - dry) * n
BlendSwapped(e, n, dry) == dry * e + (DryDen - dry) * n

\* (1 - dry) * e + dry * n, in units of 1 / DryDen
Blend(e, n, dry) == (DryDen - dry) * e + dry * n

\* demucs.DemucsStreamer(model, dry=dry): a causal adapter that emits whole
\* frames and keeps the rest for later
DemucsStreamer(model, dry) ==
  [dry |-> dry, wet |-> model, pending |-> <<>>, pos |-> 0, fed |-> 0,
   flushed |-> FALSE]

WetAt(st, i) == IF i <= Len(st.wet) THEN st.wet[i] ELSE 0

Emit(st, buf, n) == [i \in 1..n |-> Blend(WetAt(st, st.pos + i), buf[i], st.dry)]

feed(st, chunk) ==
  LET buf == st.pending \o chunk
      n == (Len(buf) \div Frame) * Frame
  IN  [out |-> Emit(st, buf, n),
       st |-> [st EXCEPT !.pending = SubSeq(buf, n + 1, Len(buf)),
                         !.pos = @ + n, !.fed = @ + 1]]

flush(st) ==
  [out |-> Emit(st, st.pending, Len(st.pending)),
   st |-> [st EXCEPT !.pending = <<>>, !.pos = @ + Len(st.pending),
                     !.flushed = TRUE]]

Op(name, arg, out, before) == [op |-> name, arg |-> arg, out |-> out, before |-> before]

\* torch.cat([streamer.flush(), streamer.feed(noisy[0])])
get_estimate_flush_first(model, sig, a) ==
  IF a.streaming
  THEN LET s0 == DemucsStreamer(model, a.dry)
           g == flush(s0)
           f == feed(g.st, sig)
       IN  [estimate |-> g.out \o f.out,
            log |-> << Op("new", <<>>, <<>>, s0), Op("flush", <<>>, g.out, s0),
                       Op("feed", sig, f.out, g.st) >>,
            streamers |-> <<f.st>>]
  ELSE [estimate |-> [i \in DOMAIN sig |-> Blend(model[i], sig[i], a.dry)],
        log |-> <<>>,
        streamers |-> <<>>]

get_estimate(model, sig, a) ==
  IF a.streaming
  THEN LET s0 == DemucsStreamer(model, a.dry)
           f == feed(s0, sig)
           g == flush(f.st)
       IN  [estimate |-> f.out \o g.out,
            log |-> << Op("new", <<>>, <<>>, s0), Op("feed", sig, f.out, s0),
                       Op("flush", <<>>, g.out, f.st) >>,
            streamers |-> <<g.st>>]
  ELSE [estimate |-> [i \in DOMAIN sig |-> Blend(model[i], sig[i], a.dry)],
        log |-> <<>>,
        streamers |-> <<>>]

GetEstimate ==
  /\ ncalls < EstCalls
  /\ LET e == get_estimate(modelOut, noisy, args)
     IN  /\ estimate' = e.estimate
         /\ slog' = e.log
         /\ streamer' = IF e.streamers = <<>> THEN streamer ELSE e.streamers[1]
         /\ made' = made + Len(e.streamers)
  /\ ncalls' = ncalls + 1
  /\ UNCHANGED <<noisy, modelOut, envVars, callVars, orchVars, wrVars>>

EstSamples == 0..EstAmp
EstSignals == UNION { [1..n -> EstSamples] : n \in 1..EstLen }

IdleEst ==
  /\ noisy = <<>>
  /\ modelOut = <<>>
  /\ estimate = <<>>
  /\ slog = <<>>
  /\ streamer = DemucsStreamer(<<>>, 0)
  /\ made = 0
  /\ ncalls = 0

\* ---------------------------------------------------------------- writing

Abs(x) == IF x < 0 THEN -x ELSE x
Max2(a, b) == IF b > a THEN b ELSE a

RECURSIVE Peak(_)
Peak(wav) == IF wav = <<>> THEN 0 ELSE Max2(Abs(Head(wav)), Peak(Tail(wav)))

\* wav / wav.abs().max().item(): the peak is scaled to 1.0 whatever it is
write_always_scales(wav, filename, sr) ==
  [filename |-> filename, num |-> wav, den |-> Peak(wav), sr |-> sr]

\* wav / max(wav.abs().max().item(), 1): sample i becomes num[i] / den of
\* full scale, where 1.0 is Unit
write(wav, filename, sr) ==
  [filename |-> filename, num |-> wav, den |-> Max2(Peak(wav), Unit), sr |-> sr]

NotSaved == [filename |-> <<>>, num |-> <<>>, den |-> 0, sr |-> 0]

Write ==
  /\ saved = NotSaved
  /\ saved' = write(wavIn, DestPath(OutDir, P1), args.sample_rate)
  /\ UNCHANGED <<wavIn, envVars, callVars, orchVars, estVars>>

Wavs == UNION { [1..n -> (-MaxAmp)..MaxAmp] : n \in 1..MaxLen }

IdleWrite ==
  /\ wavIn = <<>>
  /\ saved = NotSaved

IdleCalls ==
  /\ ret = NoRet
  /\ hist = NoHist

\* --------------------------------------------------------- specifications
\* every rank runs enhance once over the shared file system
Init ==
  /\ \/ /\ args = Args(FALSE, FALSE, FALSE, 0, FALSE)
        /\ disk = EmptyDisk(TRUE)
        /\ cache = NoCache
     \/ /\ args = Args(FALSE, TRUE, FALSE, 0, FALSE)
        /\ disk \in InputDisks
        /\ cache = NoCache
     \/ /\ args = Args(TRUE, FALSE, TRUE, 0, FALSE)
        /\ disk \in InputDisks
        /\ cache = NoCache
     \/ /\ args = Args(TRUE, FALSE, FALSE, 0, FALSE)
        /\ disk = EmptyDisk(TRUE)
        /\ cache = NoCache
     \/ /\ args = Args(TRUE, FALSE, FALSE, 0, FALSE)
        /\ disk = EmptyDisk(TRUE)
        /\ cache \in UserCaches
  /\ IdleCalls
  /\ IdleOrch
  /\ IdleEst
  /\ IdleWrite

Next == \E r \in Ranks : enhance(r)

Spec == Init /\ [][Next]_vars

\* one process calls get_dataset again and again while the input tree changes
TouchFile ==
  /\ disk.base
  /\ \E p \in TouchPaths, i \in Infos :
       LET files == (p :> i) @@ disk.files
       IN  \E o \in Orders(DOMAIN files) :
             disk' = [disk EXCEPT !.files = files, !.order = o]
  /\ UNCHANGED <<args, cache, callVars, orchVars, estVars, wrVars>>

RemoveFile ==
  /\ \E p \in DOMAIN disk.files :
       LET files == [q \in DOMAIN disk.files \ {p} |-> disk.files[q]]
       IN  \E o \in Orders(DOMAIN files) :
             disk' = [disk EXCEPT !.files = files, !.order = o]
  /\ UNCHANGED <<args, cache, callVars, orchVars, estVars, wrVars>>

RemoveBase ==
  /\ disk.base
  /\ disk' = EmptyDisk(FALSE)
  /\ UNCHANGED <<args, cache, callVars, orchVars, estVars, wrVars>>

CreateBase ==
  /\ ~disk.base
  /\ disk' = EmptyDisk(TRUE)
  /\ UNCHANGED <<args, cache, callVars, orchVars, estVars, wrVars>>

InitCache ==
  /\ args \in { Args(TRUE, FALSE, b, 0, FALSE) : b \in BOOLEAN }
  /\ disk \in { EmptyDisk(b) : b \in BOOLEAN }
  /\ cache = NoCache
  /\ IdleCalls
  /\ IdleOrch
  /\ IdleEst
  /\ IdleWrite

NextCache == CallGetDataset \/ TouchFile \/ RemoveFile \/ RemoveBase \/ CreateBase

SpecCache == InitCache /\ [][NextCache]_vars

\* get_estimate applied to every small signal, model response and setting
InitEst ==
  /\ args \in { Args(FALSE, FALSE, FALSE, d, s) : d \in 0..DryDen, s \in BOOLEAN }
  /\ noisy \in EstSignals
  /\ modelOut \in { m \in EstSignals : Len(m) = Len(noisy) }
  /\ estimate = <<>>
  /\ slog = <<>>
  /\ streamer = DemucsStreamer(<<>>, 0)
  /\ made = 0
  /\ ncalls = 0
  /\ disk = EmptyDisk(TRUE)
  /\ cache = NoCache
  /\ IdleCalls
  /\ IdleOrch
  /\ IdleWrite

NextEst == GetEstimate

SpecEst == InitEst /\ [][NextEst]_vars

\* write applied to every small waveform
InitWrite ==
  /\ args = Args(FALSE, FALSE, FALSE, 0, FALSE)
  /\ wavIn \in Wavs
  /\ saved = NotSaved
  /\ disk = EmptyDisk(TRUE)
  /\ cache = NoCache
  /\ IdleCalls
  /\ IdleOrch
  /\ IdleEst

NextWrite == Write

SpecWrite == InitWrite /\ [][NextWrite]_vars

\* ----------------------------------------------------------------- claims
InLoop(r) ==
  \/ pc[r] \in {"loop", "forward", "chk_cls", "mk_cls", "chk_vid", "mk_vid", "write", "done"}
  \/ handled[r] # <<>>
  \/ failed[r].batch > 0

Wrote(r) == \E k \in DOMAIN handled[r] : handled[r][k].op = "write"

\* C1: a rank is in the processing loop (or has inferred, written or failed
\* there) only after rank 0 created the output root and every rank entered
\* the barrier; so the root exists whenever any output file has been written.
C1_RootBeforeLoop ==
  /\ \A r \in Ranks : InLoop(r) => (exists(dirs, OutDir) /\ arrived = Ranks)
  /\ (DOMAIN outFiles # {}) => exists(dirs, OutDir)

C1_Witness == \E r \in Ranks \ {0} : Wrote(r) /\ exists(dirs, OutDir)

\* C2: no rank ever leaves save_wavs with an "already exists" error from the
\* creation of out_dir/<class> or out_dir/<class>/<recording_id>.
C2_NoAlreadyExists == \A r \in Ranks : failed[r].kind # "FileExistsError"

Entries(r) == { got[r].dset.files.items[i].items[1] : i \in DOMAIN got[r].dset.files.items }
Writable == { p \in UNION { Entries(r) : r \in Ranks } : HasSeg(p, 3) }
Last3(p) == <<Seg(p, 3), Seg(p, 2), Seg(p, 1)>>
PlainLast3(p) == \A k \in 1..3 : Seg(p, k) # ""

\* C3 as stated: the distinct source paths of the manifest are written to
\* distinct destinations, so no output file is written more than once.
C3_NeverSameFile == \A d \in DOMAIN outFiles : Len(outFiles[d]) <= 1

\* C3 as amended: manifest entries whose last three segments are non-empty
\* and not all equal get distinct destinations, and an output file is written
\* more than once only by sources that share their last three segments or
\* have an empty segment among them.
C3_DistinctWhenSuffixDiffers ==
  /\ \A p, q \in Writable :
       (PlainLast3(p) /\ PlainLast3(q) /\ Last3(p) # Last3(q))
         => FsKey(DestPath(OutDir, p)) # FsKey(DestPath(OutDir, q))
  /\ \A d \in DOMAIN outFiles : \A i, j \in DOMAIN outFiles[d] :
       \/ Last3(outFiles[d][i]) = Last3(outFiles[d][j])
       \/ ~PlainLast3(outFiles[d][i])
       \/ ~PlainLast3(outFiles[d][j])

C3_Witness ==
  /\ \A r \in Ranks : Wrote(r)
  /\ \E d, e \in DOMAIN outFiles :
       /\ d # e
       /\ PlainLast3(outFiles[d][1]) /\ PlainLast3(outFiles[e][1])
       /\ Seg(outFiles[d][1], 1) = Seg(outFiles[e][1], 1)

\* C4: a call that finds the cache file returns its contents verbatim without
\* walking or writing; a call that does not find it and succeeds walks once,
\* writes the cache and returns what the cache now holds; the cache is written
\* at most once, and every successful call returns what the first one returned.
C4_CacheStable ==
  /\ hist.writes <= 1
  /\ (hist.calls > 0 /\ hist.last.cacheExisted)
       => (hist.last.verbatim /\ ~hist.last.walked /\ ~hist.last.wrote)
  /\ (hist.calls > 0 /\ ~hist.last.cacheExisted /\ ret.kind = "dataset")
       => (hist.last.walked /\ hist.last.wrote /\ cache.exists)
  /\ (ret.kind = "dataset") => (ret.dset = hist.first)
  /\ (hist.loads > 0)
       => (cache.exists /\ json_load(cache.text) = hist.first.files /\ hist.writes = 1)

C4_Witness ==
  /\ hist.loads >= 2
  /\ ret.kind = "dataset"
  /\ Len(ret.dset.files.items) = 2
  /\ DOMAIN disk.files = {}

\* C5: a first-time discovery whose root does not exist, or one of whose
\* matched files cannot be probed, ends in an error and leaves no cache file.
C5_DiscoveryFailsFast ==
  (hist.calls > 0 /\ ~hist.last.cacheExisted
     /\ (~hist.last.baseExisted \/ hist.last.unprobeable))
    => (ret.kind = "error" /\ ~hist.last.wrote /\ ~cache.exists)

C7_NormalizeNoAmplify ==
  (saved # NotSaved) =>
    LET p == Peak(wavIn)
    IN  /\ Len(saved.num) = Len(wavIn)
        /\ (p <= Unit) => \A i \in DOMAIN wavIn : saved.num[i] * Unit = wavIn[i] * saved.den
        /\ (p > Unit) =>
             /\ Peak(saved.num) = saved.den
             /\ \A i \in DOMAIN wavIn : saved.num[i] * p = wavIn[i] * saved.den
             /\ \A i, j \in DOMAIN wavIn : saved.num[i] * wavIn[j] = saved.num[j] * wavIn[i]
        /\ saved.den > 0
        /\ Peak(saved.num) <= saved.den

C7_Witness ==
  /\ saved # NotSaved
  /\ Peak(wavIn) > Unit
  /\ Len(wavIn) = MaxLen
  /\ \E i \in DOMAIN wavIn : wavIn[i] # 0 /\ Abs(wavIn[i]) < Peak(wavIn)

\* C8: with neither noisy_dir nor noisy_json, get_dataset warns and returns
\* None and enhance returns without an error, a loader, the output root, the
\* barrier, an inference call or a write.
C8_EmptyInputNoOp ==
  (~args.noisy_json /\ ~args.noisy_dir) =>
    /\ \A r \in Ranks :
         /\ pc[r] \in {"start", "dataset", "returned"}
         /\ (pc[r] = "returned") => (got[r].kind = "none" /\ got[r].warned)
         /\ failed[r] = NoFailure
         /\ queue[r] = <<>>
         /\ handled[r] = <<>>
    /\ dirs = {}
    /\ arrived = {}
    /\ outFiles = <<>>
    /\ cache = NoCache

C8_Witness ==
  /\ ~args.noisy_json /\ ~args.noisy_dir
  /\ \A r \in Ranks : pc[r] = "returned" /\ got[r].warned

Expected(own) ==
  [k \in 1..(2 * Len(own)) |->
     IF k % 2 = 1 THEN Ev("infer", own[(k + 1) \div 2]) ELSE Ev("write", own[k \div 2])]

\* C9: a rank infers and then writes its batches one by one in the loader's
\* order; a failure leaves enhance at once, so nothing is inferred or written
\* after it and what was written before it stays; without a failure the loop
\* ends when the loader is exhausted, each batch written exactly once.
C9_FailFastLoop ==
  \A r \in Ranks :
    (got[r].kind = "dataset") =>
      LET own == Partition(r, got[r].dset)
          exp == Expected(own)
      IN  /\ Len(handled[r]) <= Len(exp)
          /\ \A k \in DOMAIN handled[r] : handled[r][k] = exp[k]
          /\ (failed[r].kind # "none") =>
               /\ pc[r] = "error"
               /\ Len(handled[r]) = failed[r].events
               /\ \A k \in DOMAIN handled[r] :
                    failed[r].batch > 0 => handled[r][k].idx <= failed[r].batch
          /\ \A k \in DOMAIN handled[r] :
               (handled[r][k].op = "write") =>
                 LET src == SourcePath(got[r].dset, handled[r][k].idx)
                     dest == FsKey(DestPath(OutDir, src))
                 IN  /\ dest \in DOMAIN outFiles
                     /\ \E n \in DOMAIN outFiles[dest] : outFiles[dest][n] = src
          /\ (pc[r] = "done") =>
               (handled[r] = exp /\ queue[r] = <<>> /\ failed[r] = NoFailure)

C9_Witness ==
  \E r \in Ranks :
    /\ failed[r].kind \in {"DecodeError", "InferenceError", "WriteError"}
    /\ Len(handled[r]) >= 2
    /\ queue[r] = <<>>
    /\ failed[r].batch > handled[r][1].idx

\* C10: a streaming call builds one fresh streamer bound to the model and
\* dry, feeds it the whole signal once, flushes it once after the feed and
\* returns the feed output followed by the flush output, with no blend of its
\* own; the streamer is not fed after the flush and not kept for the next call.
C10_StreamerLifecycle ==
  (ncalls > 0 /\ args.streaming) =>
    /\ Len(slog) = 3
    /\ slog[1].op = "new" /\ slog[2].op = "feed" /\ slog[3].op = "flush"
    /\ slog[1].before = DemucsStreamer(modelOut, args.dry)
    /\ slog[2].before = slog[1].before
    /\ slog[2].arg = noisy
    /\ slog[3].before.fed = 1 /\ ~slog[3].before.flushed
    /\ estimate = slog[2].out \o slog[3].out
    /\ Len(estimate) = Len(noisy)
    /\ \A i \in DOMAIN estimate :
         estimate[i] = (DryDen - args.dry) * modelOut[i] + args.dry * noisy[i]
    /\ streamer.fed = 1 /\ streamer.flushed /\ streamer.pending = <<>>
    /\ made = ncalls

C10_Witness ==
  /\ ncalls = EstCalls /\ args.streaming /\ args.dry = 1
  /\ Len(slog) = 3
  /\ slog[2].out # <<>> /\ slog[3].out # <<>>
  /\ \E i \in DOMAIN noisy : modelOut[i] # noisy[i]

====
